---- MODULE Spec2Model ----
(***************************************************************************)
(* State-machine model of src/trading_system.py: one run of                *)
(* TradingSystem.run_system (fetch -> signals -> training -> reporting),   *)
(* and the strategy / training pipeline on one frame.                      *)
(*                                                                         *)
(* Lines 278 and 280 of the source carry escaped quotes (f\"...\"); they   *)
(* are read as the f-strings they stand for.                               *)
(***************************************************************************)
EXTENDS Integers, Sequences, FiniteSets, TLC

VARIABLES
    pc,                  \* position inside run_system
    outcome,             \* "none" | "SUCCESS" | "ABORTED" | "ValueError"
    i,                   \* fetch_data: index of the current symbol (1-based)
    period_idx,          \* fetch_data: index into periods_to_try of the next attempt
    symbol_data_fetched, \* fetch_data: local flag of the current symbol
    data,                \* fetch_data: symbol -> series (strategy.data afterwards)
    lastCall,            \* provider side: the most recent call and how it ended
    served,              \* provider side: symbol -> first non-empty series handed out
    asked,               \* provider side: periods history() was asked for, current symbol
    requeried,           \* provider side: symbols asked again after a non-empty answer
    signals,             \* TradingStrategy.signals
    models,              \* MLModel.models
    accuracies,          \* MLModel.accuracies
    sheet,               \* GoogleSheetsLogger.sheet (None when not configured)
    base_url,            \* TelegramNotifier.base_url (None without a token)
    chat_id,             \* TelegramNotifier.chat_id
    previous_rows,       \* Portfolio_Summary rows the spreadsheet kept from earlier runs
    Trade_Log,           \* rows appended to the Trade_Log tab in this run
    Portfolio_Summary,   \* rows appended to the Portfolio_Summary tab in this run
    sent,                \* messages delivered by the messaging endpoint
    attempted            \* reporter sub-operations run_system has called, in order

vars == <<pc, outcome, i, period_idx, symbol_data_fetched, data, lastCall, served,
          asked, requeried, signals, models, accuracies, sheet, base_url, chat_id,
          previous_rows, Trade_Log, Portfolio_Summary, sent, attempted>>

fetchVars == <<i, period_idx, symbol_data_fetched, data, lastCall, served, asked, requeried>>
mlVars == <<signals, models, accuracies>>
configVars == <<sheet, base_url, chat_id, previous_rows>>
reportVars == <<Trade_Log, Portfolio_Summary, sent, attempted>>

-----------------------------------------------------------------------------
(* Values                                                                  *)

\* numpy.nan / None: the undefined value of a column.
NaN == -999
None == "None"

\* Longest frame drawn for the strategy / training pipeline.
MaxRows == 3

\* IEEE comparisons: any comparison with NaN is False.
Lt(a, b) == a # NaN /\ b # NaN /\ a < b
Gt(a, b) == a # NaN /\ b # NaN /\ a > b

EmptyMap == [s \in {} |-> <<>>]
Put(f, k, v) == [x \in (DOMAIN f) \cup {k} |-> IF x = k THEN v ELSE f[x]]

\* os.getenv('SYMBOLS', 'RELIANCE.NS,INFY.NS,ICICIBANK.NS').split(',')
symbols == <<"RELIANCE.NS", "INFY.NS", "ICICIBANK.NS">>

\* DataFetcher(self.symbols) keeps the default period '6mo'.
periods_to_try == <<"6mo", "3mo", "1mo", "1y">>

\* What talib derives for a row: the oscillator (RSI), on both sides of and at
\* the thresholds 30 and 70, and the pair (20-period SMA, 50-period SMA).
RSIValues == {NaN, 25, 30, 70, 75}
MAPairs == {<<NaN, NaN>>, <<1, 2>>, <<2, 1>>, <<1, 1>>}

\* The rows of a provider frame: every indicator combination at close 1, and
\* a second close for a warm-up row, a buy row, a sell row and a hold row.
PriceRows ==
    [Close : {1}, ta : RSIValues \X MAPairs]
        \cup [Close : {2}, ta : {<<NaN, <<NaN, NaN>>>>, <<25, <<2, 1>>>>,
                                 <<75, <<1, 2>>>>, <<25, <<1, 1>>>>}]

RECURSIVE FramesUpTo(_)
FramesUpTo(n) ==
    IF n = 0 THEN {<<>>}
    ELSE LET shorter == FramesUpTo(n - 1)
         IN  shorter \cup {Append(f, r) : f \in {g \in shorter : Len(g) = n - 1}, r \in PriceRows}

Frames == FramesUpTo(MaxRows) \ {<<>>}

-----------------------------------------------------------------------------
(* TradingStrategy                                                         *)

calculate_indicators(df) ==
    [k \in 1..Len(df) |->
        [Close |-> df[k].Close,
         RSI   |-> df[k].ta[1],
         MA20  |-> df[k].ta[2][1],
         MA50  |-> df[k].ta[2][2]]]

buy_condition(r) == Lt(r.RSI, 30) /\ Gt(r.MA20, r.MA50)

\* faulty variants of sell_condition: AND for OR; the oscillator test reversed
sell_condition_and(r) == Gt(r.RSI, 70) /\ Lt(r.MA20, r.MA50)
sell_condition_flipped(r) == Lt(r.RSI, 70) \/ Lt(r.MA20, r.MA50)
sell_condition(r) == Gt(r.RSI, 70) \/ Lt(r.MA20, r.MA50)

\* df['Signal'] = 0 ; df['Position'] = 0
InitColumns(df) ==
    [k \in 1..Len(df) |->
        [Close |-> df[k].Close, RSI |-> df[k].RSI, MA20 |-> df[k].MA20,
         MA50 |-> df[k].MA50, Signal |-> 0, Position |-> 0]]

\* df.loc[mask, 'Signal'] = v
LocSetSignal(df, mask, v) ==
    [k \in 1..Len(df) |-> IF mask[k] THEN [df[k] EXCEPT !.Signal = v] ELSE df[k]]

\* Series.replace(to_replace=a, value=b), b given explicitly
replace(col, a, b) == [k \in 1..Len(col) |-> IF col[k] = a THEN b ELSE col[k]]

\* faulty variant of ffill: nothing is carried forward
ffill_none(col) == col
\* Series.ffill(): scan with carry, the carry undefined until a defined value
ffill(col) ==
    LET carry[k \in 0..Len(col)] ==
            IF k = 0 THEN NaN
            ELSE IF col[k] # NaN THEN col[k] ELSE carry[k - 1]
    IN  [k \in 1..Len(col) |-> carry[k]]

generate_signals_df(frame) ==
    LET df0  == InitColumns(calculate_indicators(frame))
        buy  == [k \in 1..Len(df0) |-> buy_condition(df0[k])]
        sell == [k \in 1..Len(df0) |-> sell_condition(df0[k])]
        df1  == LocSetSignal(df0, buy, 1)
        df2  == LocSetSignal(df1, sell, -1)
        pos  == ffill(replace([k \in 1..Len(df2) |-> df2[k].Signal], 0, NaN))
    IN  [k \in 1..Len(df2) |-> [df2[k] EXCEPT !.Position = pos[k]]]

generate_signals(d) == [s \in DOMAIN d |-> generate_signals_df(d[s])]

-----------------------------------------------------------------------------
(* MLModel                                                                 *)

\* Series.shift(-1): the last row gets NaN
shift_back(col) == [k \in 1..Len(col) |-> IF k < Len(col) THEN col[k + 1] ELSE NaN]

\* np.where(df['Close'].shift(-1) > df['Close'], 1, 0)
Target(df) ==
    LET close == [k \in 1..Len(df) |-> df[k].Close]
        next  == shift_back(close)
    IN  [k \in 1..Len(df) |-> IF Gt(next[k], close[k]) THEN 1 ELSE 0]

HasNaN(r) ==
    NaN \in {r.Close, r.RSI, r.MA20, r.MA50, r.Signal, r.Position, r.Target}

fillna0(v) == IF v = NaN THEN 0 ELSE v

\* prepare_data: label, dropna, feature selection.  Date is the row's index
\* label, which dropna keeps.
prepare_data(df) ==
    LET t     == Target(df)
        full  == [k \in 1..Len(df) |->
                    [Date |-> k, Close |-> df[k].Close, RSI |-> df[k].RSI,
                     MA20 |-> df[k].MA20, MA50 |-> df[k].MA50,
                     Signal |-> df[k].Signal, Position |-> df[k].Position,
                     Target |-> t[k]]]
        kept  == SelectSeq(full, LAMBDA r : ~HasNaN(r))
    IN  [X |-> [k \in 1..Len(kept) |->
                   [Date |-> kept[k].Date, RSI |-> fillna0(kept[k].RSI),
                    MA20 |-> fillna0(kept[k].MA20), MA50 |-> fillna0(kept[k].MA50)]],
         y |-> [k \in 1..Len(kept) |-> [Date |-> kept[k].Date, Target |-> kept[k].Target]]]

\* train_test_split(test_size=0.2): n_test = ceil(0.2 n), n_train = n - n_test
n_test(n) == (n + 4) \div 5
n_train(n) == n - n_test(n)

\* faulty variant of SkipsTraining: the emptiness test is missing
SkipsTraining_never(xy) == FALSE
\* line 132: if X.empty or y.empty
SkipsTraining(xy) == Len(xy.X) = 0 \/ Len(xy.y) = 0

\* what the loop body of train_models does with one symbol
TrainStep(df) ==
    LET xy == prepare_data(df)
    IN  IF SkipsTraining(xy) THEN "skip"
        ELSE IF n_train(Len(xy.X)) = 0 THEN "ValueError"
        ELSE "fit"

\* the largest held-out set any frame of the mapping can give
HeldOutBound(sig) ==
    LET lens == {Len(sig[s]) : s \in DOMAIN sig} \cup {0}
    IN  n_test(CHOOSE m \in lens : \A l \in lens : l <= m)

Order(m) == SelectSeq(symbols, LAMBDA s : s \in DOMAIN m)

\* The loop of train_models over the symbols in insertion order; correct[s] is
\* the number of held-out rows the fitted tree predicts right.
RECURSIVE TrainLoop(_, _, _, _)
TrainLoop(order, sig, correct, st) ==
    IF order = <<>> THEN st
    ELSE LET s    == Head(order)
             step == TrainStep(sig[s])
             n    == Len(prepare_data(sig[s]).X)
         IN  IF step = "skip" THEN TrainLoop(Tail(order), sig, correct, st)
             ELSE IF step = "ValueError" THEN [st EXCEPT !.raised = TRUE]
             ELSE TrainLoop(Tail(order), sig, correct,
                     [models     |-> Put(st.models, s, "DecisionTreeClassifier"),
                      accuracies |-> Put(st.accuracies, s,
                                         [correct |-> correct[s], of |-> n_test(n)]),
                      raised     |-> FALSE])

-----------------------------------------------------------------------------
(* The market-data provider                                                *)

w1    == [Close |-> 1, ta |-> <<NaN, <<NaN, NaN>>>>]
sell1 == [Close |-> 1, ta |-> <<75, <<1, 2>>>>]
sell2 == [Close |-> 2, ta |-> <<75, <<1, 2>>>>]
hold1 == [Close |-> 1, ta |-> <<25, <<1, 1>>>>]

\* The non-empty series the provider hands out in a run: one that leaves no
\* row after dropna, one that leaves exactly one, one with a single label
\* class and one with both classes.
ProviderSeries ==
    { <<w1>>, <<w1, sell2>>, <<sell1, sell1>>, <<sell1, sell2, hold1>> }

\* ticker.info: a non-empty dict, an empty one, an exception, a 429 exception
InfoResponses == {"ok", "empty", "error", "429"}

\* ticker.history(period): a frame (possibly empty), an exception, a 429 exception
HistResponses ==
    {[kind |-> "data", hist |-> h] : h \in ProviderSeries \cup {<<>>}}
        \cup {[kind |-> "error", hist |-> <<>>], [kind |-> "429", hist |-> <<>>]}

NoCall == [i |-> 0, period |-> 0, outcome |-> "none", retry |-> FALSE]

\* what the provider remembers of a history() call for symbol s
ProviderServes(s, resp) ==
    IF resp.kind = "data" /\ resp.hist # <<>> /\ s \notin DOMAIN served
    THEN Put(served, s, resp.hist)
    ELSE served

-----------------------------------------------------------------------------
(* DataFetcher.fetch_data                                                  *)

\* faulty variant of StoresHist: an empty frame is stored too
StoresHist_always(hist) == TRUE
\* line 67: if not hist.empty
StoresHist(hist) == hist # <<>>

\* `continue`, or falling off the end of the loop body: the for loop takes the
\* next element of periods_to_try, after a rate limit as after any failure
NextPeriod(p, rate_limited, is_retry) == p + 1

\* One pass through the body of `for period in periods_to_try` (lines 49-80).
TryPeriod ==
    /\ pc = "fetch_data"
    /\ i <= Len(symbols)
    /\ period_idx <= Len(periods_to_try)
    /\ ~symbol_data_fetched
    /\ LET s       == symbols[i]
           isRetry == lastCall.outcome = "429" /\ lastCall.i = i
                        /\ lastCall.period = period_idx
           call(o) == [i |-> i, period |-> period_idx, outcome |-> o, retry |-> isRetry]
       IN  \E info \in InfoResponses :
             IF info = "empty"
             THEN \* line 57: continue, history() is not called
                  /\ period_idx' = NextPeriod(period_idx, FALSE, isRetry)
                  /\ lastCall' = call("no_info")
                  /\ UNCHANGED <<symbol_data_fetched, data, served, asked, requeried>>
             ELSE IF info = "429"
             THEN \* lines 61-64: sleep(5); continue
                  /\ period_idx' = NextPeriod(period_idx, TRUE, isRetry)
                  /\ lastCall' = call("429")
                  /\ UNCHANGED <<symbol_data_fetched, data, served, asked, requeried>>
             ELSE \* info is there, or failed otherwise: line 65
                  \E resp \in HistResponses :
                    /\ asked' = asked \cup {period_idx}
                    /\ requeried' = IF s \in DOMAIN served THEN requeried \cup {s} ELSE requeried
                    /\ served' = ProviderServes(s, resp)
                    /\ IF resp.kind = "data" /\ StoresHist(resp.hist)
                       THEN \* lines 68-70: store and break
                            /\ data' = Put(data, s, resp.hist)
                            /\ symbol_data_fetched' = TRUE
                            /\ lastCall' = call("data")
                            /\ UNCHANGED period_idx
                       ELSE /\ period_idx' = NextPeriod(period_idx, resp.kind = "429", isRetry)
                            /\ lastCall' = call(IF resp.kind = "data" THEN "empty" ELSE resp.kind)
                            /\ UNCHANGED <<symbol_data_fetched, data>>
    /\ UNCHANGED <<pc, outcome, i>>
    /\ UNCHANGED <<mlVars, configVars, reportVars>>

\* The inner loop is over (break or exhaustion): lines 81-82, then the next
\* symbol of the outer loop (lines 45-48).
NextSymbol ==
    /\ pc = "fetch_data"
    /\ i <= Len(symbols)
    /\ symbol_data_fetched \/ period_idx > Len(periods_to_try)
    /\ i' = i + 1
    /\ period_idx' = 1
    /\ symbol_data_fetched' = FALSE
    /\ asked' = {}
    /\ UNCHANGED <<pc, outcome, data, lastCall, served, requeried>>
    /\ UNCHANGED <<mlVars, configVars, reportVars>>

-----------------------------------------------------------------------------
(* TradingSystem.run_system                                                *)

\* faulty variant of IsEmptyMapping: the run never aborts
IsEmptyMapping_never(d) == FALSE
\* line 265: if not data
IsEmptyMapping(d) == DOMAIN d = {}

\* fetch_data returns (line 85); run_system aborts on an empty mapping
\* (lines 265-267) or hands the mapping to the strategy (line 269).
FetchReturns ==
    /\ pc = "fetch_data"
    /\ i > Len(symbols)
    /\ IF IsEmptyMapping(data)
       THEN pc' = "returned" /\ outcome' = "ABORTED"
       ELSE pc' = "generate_signals" /\ UNCHANGED outcome
    /\ UNCHANGED <<fetchVars, mlVars, configVars, reportVars>>

\* line 270
GenerateSignals ==
    /\ pc = "generate_signals"
    /\ signals' = generate_signals(data)
    /\ pc' = "train_models"
    /\ UNCHANGED <<outcome, models, accuracies>>
    /\ UNCHANGED <<fetchVars, configVars, reportVars>>

\* line 272: train_models, whose ValueError nothing catches
TrainModels ==
    /\ pc = "train_models"
    /\ \E correct \in [DOMAIN signals -> 0..HeldOutBound(signals)] :
         /\ \A s \in DOMAIN signals :
               correct[s] <= IF TrainStep(signals[s]) = "fit"
                             THEN n_test(Len(prepare_data(signals[s]).X)) ELSE 0
         /\ LET st == TrainLoop(Order(signals), signals, correct,
                                [models |-> models, accuracies |-> accuracies,
                                 raised |-> FALSE])
            IN  /\ models' = st.models
                /\ accuracies' = st.accuracies
                /\ IF st.raised
                   THEN pc' = "raised" /\ outcome' = "ValueError"
                   ELSE pc' = "log_trades" /\ UNCHANGED outcome
    /\ UNCHANGED signals
    /\ UNCHANGED <<fetchVars, configVars, reportVars>>

-----------------------------------------------------------------------------
(* GoogleSheetsLogger                                                      *)

last(df) == df[Len(df)]

\* lines 168-178: one row per symbol (the timestamp column is left out)
trade_data(sig) ==
    LET order == Order(sig)
    IN  [k \in 1..Len(order) |->
            [symbol |-> order[k],
             Signal |-> last(sig[order[k]]).Signal,
             Close  |-> last(sig[order[k]]).Close,
             RSI    |-> fillna0(last(sig[order[k]]).RSI),
             MA20   |-> fillna0(last(sig[order[k]]).MA20),
             MA50   |-> fillna0(last(sig[order[k]]).MA50)]]

RECURSIVE SumLastClose(_, _)
SumLastClose(order, sig) ==
    IF order = <<>> THEN 0
    ELSE last(sig[Head(order)]).Close + SumLastClose(Tail(order), sig)

headers == [kind |-> "headers", total |-> 0, buy |-> 0, sell |-> 0, hold |-> 0,
            value |-> 0, change |-> 0]

\* lines 190-196: the last stored row's portfolio value; 0 when the tab holds
\* at most one row or the cell does not parse (the headers row)
previous_value(all_values) ==
    IF Len(all_values) > 1 /\ all_values[Len(all_values)].kind = "summary"
    THEN all_values[Len(all_values)].value
    ELSE 0

\* lines 197-215 (the formatted average accuracy and percentage are left out)
summary_data(sig, all_values) ==
    LET buys  == Cardinality({s \in DOMAIN sig : last(sig[s]).Signal = 1})
        sells == Cardinality({s \in DOMAIN sig : last(sig[s]).Signal = -1})
        total == Cardinality(DOMAIN sig)
        value == SumLastClose(Order(sig), sig)
    IN  [kind |-> "summary", total |-> total, buy |-> buys, sell |-> sells,
         hold |-> total - buys - sells, value |-> value,
         change |-> value - previous_value(all_values)]

\* line 273: log_trades (lines 161-182)
LogTrades ==
    /\ pc = "log_trades"
    /\ attempted' = Append(attempted, "log_trades")
    /\ IF sheet = None
       THEN UNCHANGED Trade_Log
       ELSE \E ok \in BOOLEAN :
              IF ok THEN Trade_Log' = Trade_Log \o trade_data(signals)
              ELSE UNCHANGED Trade_Log   \* the exception is caught and logged
    /\ pc' = "log_portfolio"
    /\ UNCHANGED <<outcome, Portfolio_Summary, sent>>
    /\ UNCHANGED <<fetchVars, mlVars, configVars>>

\* line 274: log_portfolio (lines 184-222)
LogPortfolio ==
    /\ pc = "log_portfolio"
    /\ attempted' = Append(attempted, "log_portfolio")
    /\ IF sheet = None
       THEN UNCHANGED Portfolio_Summary
       ELSE LET all_values == previous_rows \o Portfolio_Summary
                head       == IF all_values = <<>> THEN <<headers>> ELSE <<>>
            IN  \E result \in {"worksheet_error", "append_error", "ok"} :
                  Portfolio_Summary' =
                     CASE result = "worksheet_error" -> Portfolio_Summary
                       [] result = "append_error"    -> Portfolio_Summary \o head
                       [] result = "ok" ->
                            Portfolio_Summary \o head
                                \o <<summary_data(signals, all_values)>>
    /\ pc' = "send_alert"
    /\ UNCHANGED <<outcome, Trade_Log, sent>>
    /\ UNCHANGED <<fetchVars, mlVars, configVars>>

-----------------------------------------------------------------------------
(* TelegramNotifier                                                        *)

\* lines 275-280: one entry per symbol, the accuracy only where there is one
alert_msg(sig, acc) ==
    LET order == Order(sig)
    IN  [k \in 1..Len(order) |->
            [symbol   |-> order[k],
             Signal   |-> last(sig[order[k]]).Signal,
             Close    |-> last(sig[order[k]]).Close,
             accuracy |-> IF order[k] \in DOMAIN acc THEN <<acc[order[k]]>> ELSE <<>>]]

\* line 281: send_alert (lines 233-245), then run_system returns
SendAlert ==
    /\ pc = "send_alert"
    /\ attempted' = Append(attempted, "send_alert")
    /\ IF base_url = None \/ chat_id = None
       THEN UNCHANGED sent
       ELSE \E response \in {"200", "500", "exception"} :
              IF response = "200" THEN sent' = Append(sent, alert_msg(signals, accuracies))
              ELSE UNCHANGED sent
    /\ pc' = "returned"
    /\ outcome' = "SUCCESS"
    /\ UNCHANGED <<Trade_Log, Portfolio_Summary>>
    /\ UNCHANGED <<fetchVars, mlVars, configVars>>

-----------------------------------------------------------------------------
(* Specifications                                                          *)

\* A summary row an earlier run left in the spreadsheet.
stored_summary == [kind |-> "summary", total |-> 1, buy |-> 0, sell |-> 1, hold |-> 0,
                   value |-> 1, change |-> 1]

\* TradingSystem.__init__ (lines 249-260)
Constructed ==
    /\ outcome = "none"
    /\ i = 1
    /\ period_idx = 1
    /\ symbol_data_fetched = FALSE
    /\ lastCall = NoCall
    /\ served = EmptyMap
    /\ asked = {}
    /\ requeried = {}
    /\ signals = EmptyMap
    /\ models = EmptyMap
    /\ accuracies = EmptyMap
    /\ sheet \in {None, "AlgoTradingSystem"}
    /\ base_url \in {None, "https://api.telegram.org/bot<token>/sendMessage"}
    /\ chat_id \in {None, "chat"}
    /\ previous_rows \in {<<>>, <<headers, stored_summary>>}
    /\ Trade_Log = <<>>
    /\ Portfolio_Summary = <<>>
    /\ sent = <<>>
    /\ attempted = <<>>

\* run_system is entered (line 262)
Init ==
    /\ Constructed
    /\ pc = "fetch_data"
    /\ data = EmptyMap

Next ==
    \/ TryPeriod
    \/ NextSymbol
    \/ FetchReturns
    \/ GenerateSignals
    \/ TrainModels
    \/ LogTrades
    \/ LogPortfolio
    \/ SendAlert

Spec == Init /\ [][Next]_vars

\* TradingStrategy(data).generate_signals() followed by
\* MLModel(signals).train_models(), on one symbol's frame
InitPipeline ==
    /\ Constructed
    /\ sheet = None /\ base_url = None /\ chat_id = None /\ previous_rows = <<>>
    /\ pc = "generate_signals"
    /\ data \in {[s \in {symbols[1]} |-> f] : f \in Frames}

NextPipeline ==
    \/ GenerateSignals
    \/ TrainModels

SpecPipeline == InitPipeline /\ [][NextPipeline]_vars

-----------------------------------------------------------------------------
(* Claims                                                                  *)

Finished == pc \in {"returned", "raised"}
Trained == pc \in {"log_trades", "raised"}
Rows(s) == 1..Len(signals[s])

\* C1: no error is fatal to a run: run_system never ends with an exception,
\* it returns in one of the outcomes SUCCESS or ABORTED (a symbol with one row
\* left for training is skipped).
C1_RunNeverRaises ==
    /\ pc # "raised"
    /\ pc = "returned" => outcome \in {"SUCCESS", "ABORTED"}

\* C2: after a provider call under period p signalled a rate limit, the next
\* attempt of the fetcher is the same symbol under the same period p (one
\* retry), not the next fallback period.
C2_RateLimitRetriesSamePeriod ==
    (lastCall.outcome = "429" /\ ~lastCall.retry)
        => /\ pc = "fetch_data"
           /\ i = lastCall.i
           /\ period_idx = lastCall.period
           /\ ~symbol_data_fetched

\* C3: the mapping of fetch_data holds a symbol exactly when a retrieval for
\* it returned a non-empty series; it holds the first such series, never an
\* empty one; no retrieval follows a non-empty one for the same symbol; the
\* periods are asked in the order of periods_to_try.
C3_FetchedMapping ==
    /\ DOMAIN data = DOMAIN served
    /\ \A s \in DOMAIN data : data[s] = served[s] /\ data[s] # <<>>
    /\ requeried = {}
    /\ \A q \in asked : IF symbol_data_fetched THEN q <= period_idx ELSE q < period_idx
    /\ symbol_data_fetched => period_idx \in asked

C3_Witness ==
    /\ pc = "generate_signals"
    /\ symbols[1] \in DOMAIN data
    /\ symbols[2] \notin DOMAIN data
    /\ lastCall = [i |-> 3, period |-> 3, outcome |-> "data", retry |-> FALSE]

\* C4: the Signal of a row is -1 when oscillator > 70 or 20-MA < 50-MA,
\* otherwise +1 when oscillator < 30 and 20-MA > 50-MA, otherwise 0; it
\* depends on that row's indicators only.
ClaimedSignal(r) ==
    IF Gt(r.RSI, 70) \/ Lt(r.MA20, r.MA50) THEN -1
    ELSE IF Lt(r.RSI, 30) /\ Gt(r.MA20, r.MA50) THEN 1
    ELSE 0

C4_SignalRule ==
    \A s \in DOMAIN signals : \A k \in Rows(s) :
        LET r == signals[s][k]
        IN  /\ r.Signal = ClaimedSignal(r)
            /\ (r.RSI = 25 /\ Gt(r.MA20, r.MA50)) => r.Signal = 1
            /\ r.RSI = 75 => r.Signal = -1
            /\ (r.RSI = NaN /\ r.MA20 = NaN /\ r.MA50 = NaN) => r.Signal = 0

C4_Witness ==
    \E s \in DOMAIN signals : \E j, k \in Rows(s) :
        /\ signals[s][j].RSI = 25 /\ Gt(signals[s][j].MA20, signals[s][j].MA50)
        /\ signals[s][j].Signal = 1
        /\ signals[s][k].RSI = 75 /\ Gt(signals[s][k].MA20, signals[s][k].MA50)
        /\ signals[s][k].Signal = -1

\* C5: Signal is one of -1, 0, 1 at every row; Position at row k is the
\* Signal of the latest row j <= k with a non-zero Signal, and is undefined
\* (not 0) before the first non-zero Signal.
C5_PositionForwardFilled ==
    \A s \in DOMAIN signals : \A k \in Rows(s) :
        LET nz == {j \in 1..k : signals[s][j].Signal # 0}
        IN  /\ signals[s][k].Signal \in {-1, 0, 1}
            /\ IF nz = {}
               THEN signals[s][k].Position = NaN
               ELSE signals[s][k].Position
                        = signals[s][CHOOSE j \in nz : \A m \in nz : m <= j].Signal

C5_Witness ==
    \E s \in DOMAIN signals :
        /\ Len(signals[s]) = 3
        /\ signals[s][1].Signal = 0 /\ signals[s][1].Position = NaN
        /\ signals[s][2].Signal = 1
        /\ signals[s][3].Signal = 0 /\ signals[s][3].Position = 1

Labels(s) == {prepare_data(signals[s]).y[k].Target : k \in 1..Len(prepare_data(signals[s]).y)}
Samples(s) == Len(prepare_data(signals[s]).X)

C7_AbortedIffEmptyNoSideEffect ==
    /\ outcome = "ABORTED" <=> (pc # "fetch_data" /\ DOMAIN data = {})
    /\ outcome = "ABORTED" =>
          /\ pc = "returned"
          /\ DOMAIN signals = {} /\ DOMAIN models = {} /\ DOMAIN accuracies = {}
          /\ Trade_Log = <<>> /\ Portfolio_Summary = <<>> /\ sent = <<>>
          /\ attempted = <<>>

C7_Witness ==
    /\ outcome = "ABORTED"
    /\ sheet # None /\ base_url # None /\ chat_id # None
    /\ lastCall.outcome = "429"

\* C8: in every run that fetched data for at least one symbol the three
\* reporter sub-operations are attempted, in the order trade log, portfolio
\* summary, messaging digest, whatever happened to the others.
C8_ReportersAlwaysAttempted ==
    (Finished /\ DOMAIN data # {})
        => attempted = <<"log_trades", "log_portfolio", "send_alert">>

\* C9: the label of row k is 1 if the close of row k+1 is above the close of
\* row k, else 0, and the last row of the series, which has no next row, is
\* never in the feature/label set handed to the split.
C9_LastRowDropped ==
    pc = "log_trades" =>
        \A s \in DOMAIN signals :
            LET xy == prepare_data(signals[s])
                n  == Len(signals[s])
            IN  \A k \in 1..Len(xy.y) :
                   /\ xy.y[k].Date # n /\ xy.X[k].Date # n
                   /\ xy.y[k].Target =
                        IF signals[s][xy.y[k].Date + 1].Close > signals[s][xy.y[k].Date].Close
                        THEN 1 ELSE 0

\* C10 as stated: a row of a frame can satisfy both conditions: there are
\* values of the oscillator and the two moving averages for which the buy
\* condition and the sell condition both hold, and such a row gets Signal -1.
IndicatorValues ==
    [RSI : (0..100) \cup {NaN}, MA20 : (1..3) \cup {NaN}, MA50 : (1..3) \cup {NaN}]

C10_BothConditionsCanHold ==
    \A s \in DOMAIN data :
        \E k \in 1..Len(data[s]), r \in IndicatorValues :
            /\ buy_condition(r) /\ sell_condition(r)
            /\ generate_signals_df(
                  <<[Close |-> data[s][k].Close,
                     ta |-> <<r.RSI, <<r.MA20, r.MA50>>>>]>>)[1].Signal = -1

\* C10 as amended: no row satisfies the buy and the sell condition together;
\* a row that satisfies the buy condition gets +1 and one that satisfies the
\* sell condition gets -1, so applying sell after buy overrides nothing.
C10_ConditionsExclusive ==
    \A s \in DOMAIN signals : \A k \in Rows(s) :
        LET r == signals[s][k]
        IN  /\ ~(buy_condition(r) /\ sell_condition(r))
            /\ buy_condition(r) => r.Signal = 1
            /\ sell_condition(r) => r.Signal = -1

C10_Witness ==
    \E s \in DOMAIN signals : \E j, k \in Rows(s) :
        /\ buy_condition(signals[s][j]) /\ signals[s][j].Signal = 1
        /\ sell_condition(signals[s][k]) /\ signals[s][k].Signal = -1
        /\ Lt(signals[s][k].RSI, 30)

====
